---- MODULE Spec2Model ----
(***************************************************************************)
(* TagsClient (dify_dataset_sdk/tags): a facade over an injected HTTP      *)
(* transport.  Every method builds a pydantic request model, hands its     *)
(* model_dump() to one transport call and wraps the JSON answer.           *)
(*                                                                         *)
(* A str whose length matters (a tag or field name) is a tuple of          *)
(* one-character strings; identifiers are TLA+ strings.  A URL path is the *)
(* tuple of its "/"-separated segments.  An optional value (a keyword      *)
(* argument left out, a field that is None) is the empty tuple, a present  *)
(* one the one-element tuple.                                              *)
(***************************************************************************)
EXTENDS Integers, Sequences, FiniteSets, TLC

\* ----------------------------------------------------------------- bounds
\* Number of caller threads sharing the one TagsClient.
NumThreads == 2
\* Longest operation_data list handed to update_document_metadata.
MaxItems == 2
\* Longest list of tag ids (bind_to_dataset) and of tag records (responses).
MaxTags == 2

\* max_length of the name field of the two tag request models.
MaxNameLen == 50

Threads == 1..NumThreads
\* The caller of the sequential specification: the first thread.
MainThread == CHOOSE t \in Threads : \A u \in Threads : t <= u

\* ------------------------------------------------------------ small helpers
RECURSIVE SeqsUpTo(_, _)
SeqsUpTo(S, n) ==
    IF n = 0 THEN {<<>>}
    ELSE LET shorter == SeqsUpTo(S, n - 1)
         IN  shorter \cup {Append(s, x) : s \in {q \in shorter : Len(q) = n - 1}, x \in S}

Str(n, c) == [i \in 1..n |-> c]

Has(d, k) == k \in DOMAIN d

\* ------------------------------------------------------------ the exceptions
\* pydantic's error, raised by a model constructor.
ValidationError == "pydantic.ValidationError"
\* The typed errors the transport raises on a non-success HTTP status.
TransportErrors == {"DifyNotFoundError", "DifyValidationError", "DifyAPIError"}

\* ------------------------------------------------- models.py: request models
\* A model instance is [cls, fields]; a constructor that fails validation
\* yields Invalid (the constructor raised).
Invalid == [ok |-> FALSE]
Built(cls, fields) == [ok |-> TRUE, inst |-> [cls |-> cls, fields |-> fields]]

\* Faulty variant: the limit taken one too large.
NameFitsOffByOne(name) == Len(name) <= MaxNameLen + 1
\* name: str = Field(max_length=50), no min_length.
NameFits(name) == Len(name) <= MaxNameLen

CreateKnowledgeTagRequest(name) ==
    IF NameFits(name)
    THEN Built("CreateKnowledgeTagRequest", [name |-> name])
    ELSE Invalid

UpdateKnowledgeTagRequest(name, tag_id) ==
    IF NameFits(name)
    THEN Built("UpdateKnowledgeTagRequest", [name |-> name, tag_id |-> tag_id])
    ELSE Invalid

DeleteKnowledgeTagRequest(tag_id) ==
    Built("DeleteKnowledgeTagRequest", [tag_id |-> tag_id])

\* Variant with min_length=1 on the list.
TagIdsNonEmpty(tag_ids) ==
    Len(tag_ids) >= 1 /\ \A i \in DOMAIN tag_ids : tag_ids[i] \in STRING
\* tag_ids: List[str], no length constraint on the list.
TagIdsValid(tag_ids) == \A i \in DOMAIN tag_ids : tag_ids[i] \in STRING

BindDatasetToTagRequest(tag_ids, target_id) ==
    IF TagIdsValid(tag_ids)
    THEN Built("BindDatasetToTagRequest", [tag_ids |-> tag_ids, target_id |-> target_id])
    ELSE Invalid

UnbindDatasetFromTagRequest(tag_id, target_id) ==
    Built("UnbindDatasetFromTagRequest", [tag_id |-> tag_id, target_id |-> target_id])

CreateMetadataRequest(type, name) ==
    Built("CreateMetadataRequest", [type |-> type, name |-> name])

UpdateMetadataRequest(name) ==
    Built("UpdateMetadataRequest", [name |-> name])

\* MetadataValue(**d): id, value and name are required, other keys ignored.
MetadataValue(d) ==
    IF Has(d, "id") /\ Has(d, "value") /\ Has(d, "name")
    THEN Built("MetadataValue", [id |-> d.id, value |-> d.value, name |-> d.name])
    ELSE Invalid

\* The metadata_list of a raw mapping, validated element by element, in order.
RECURSIVE MetadataValues(_)
MetadataValues(ds) ==
    IF ds = <<>> THEN [ok |-> TRUE, insts |-> <<>>]
    ELSE LET head == MetadataValue(Head(ds))
             rest == MetadataValues(Tail(ds))
         IN  IF head.ok /\ rest.ok
             THEN [ok |-> TRUE, insts |-> <<head.inst>> \o rest.insts]
             ELSE [ok |-> FALSE, insts |-> <<>>]

\* Variant with min_length=1 on the list.
MetadataListNonEmpty(ds) == Len(ds) >= 1 /\ MetadataValues(ds).ok
\* metadata_list: List[MetadataValue], no length constraint on the list.
MetadataListValid(ds) == MetadataValues(ds).ok

\* DocumentMetadata(**d): document_id and metadata_list are required, other
\* keys ignored.
DocumentMetadata(d) ==
    IF Has(d, "document_id") /\ Has(d, "metadata_list") /\ MetadataListValid(d.metadata_list)
    THEN Built("DocumentMetadata",
               [document_id |-> d.document_id,
                metadata_list |-> MetadataValues(d.metadata_list).insts])
    ELSE Invalid

\* operation_data: List[DocumentMetadata]; the instances are taken as they are.
UpdateDocumentMetadataRequest(operation_data) ==
    Built("UpdateDocumentMetadataRequest", [operation_data |-> operation_data])

\* ------------------------------------------------------------- model_dump()
\* A flat model dumps to the mapping of its fields; a nested model dumps its
\* members in order.
DumpFlat(inst) == inst.fields

DumpDocumentMetadata(inst) ==
    [document_id |-> inst.fields.document_id,
     metadata_list |-> [i \in 1..Len(inst.fields.metadata_list) |->
                            DumpFlat(inst.fields.metadata_list[i])]]

DumpUpdateDocumentMetadataRequest(inst) ==
    [operation_data |-> [i \in 1..Len(inst.fields.operation_data) |->
                            DumpDocumentMetadata(inst.fields.operation_data[i])]]

\* ------------------------------------------------ models.py: response models
\* Optional[...] = Field(None): the key's value when present, else None.
Opt(d, k) == IF Has(d, k) THEN <<d[k]>> ELSE <<>>

\* KnowledgeTag(**d): id and name are required, unknown keys ignored.
KnowledgeTag(d) ==
    IF Has(d, "id") /\ Has(d, "name")
    THEN Built("KnowledgeTag",
               [id |-> d.id, name |-> d.name, color |-> Opt(d, "color"),
                created_at |-> Opt(d, "created_at"), updated_at |-> Opt(d, "updated_at"),
                binding_count |-> Opt(d, "binding_count")])
    ELSE Invalid

\* Metadata(**d): id, type and name are required, unknown keys ignored.
Metadata(d) ==
    IF Has(d, "id") /\ Has(d, "type") /\ Has(d, "name")
    THEN Built("Metadata",
               [id |-> d.id, type |-> d.type, name |-> d.name,
                use_count |-> Opt(d, "use_count")])
    ELSE Invalid

RECURSIVE Metadatas(_)
Metadatas(ds) ==
    IF ds = <<>> THEN [ok |-> TRUE, insts |-> <<>>]
    ELSE LET head == Metadata(Head(ds))
             rest == Metadatas(Tail(ds))
         IN  IF head.ok /\ rest.ok
             THEN [ok |-> TRUE, insts |-> <<head.inst>> \o rest.insts]
             ELSE [ok |-> FALSE, insts |-> <<>>]

\* MetadataListResponse(**d): both fields are required.
MetadataListResponse(d) ==
    IF Has(d, "doc_metadata") /\ Has(d, "built_in_field_enabled")
       /\ Metadatas(d.doc_metadata).ok
    THEN Built("MetadataListResponse",
               [doc_metadata |-> Metadatas(d.doc_metadata).insts,
                built_in_field_enabled |-> d.built_in_field_enabled])
    ELSE Invalid

\* ---------------------------------------------------- the transport's calls
\* A transport call: the verb, the path, and the json keyword when given.
NoJson == <<>>
Request(verb, path, json) == [verb |-> verb, path |-> path, json |-> json]
Get(path) == Request("GET", path, NoJson)
Post(path, json) == Request("POST", path, json)
Patch(path, json) == Request("PATCH", path, json)
Delete(path, json) == Request("DELETE", path, json)

\* What the transport answers: parsed JSON, a list or a mapping.
JsonList(items) == [type |-> "list", items |-> items]
JsonDict(obj) == [type |-> "dict", obj |-> obj]

\* ------------------------------------------ a method up to its transport call
\* Sends: the transport calls the method issues; Raised: the method raised
\* before reaching the transport.
Sends(reqs) == [raised |-> FALSE, reqs |-> reqs]
Raised(e) == [raised |-> TRUE, error |-> e]

\* How a method ends.
Returns(value) == [kind |-> "return", value |-> value]
RaisesAt(e, at) == [kind |-> "raise", error |-> e, at |-> at]

\* ------------------------------------------- client.py: the request of each method
createCall(name) ==
    LET request == CreateKnowledgeTagRequest(name)
    IN  IF request.ok
        THEN Sends(<<Post(<<"v1", "datasets", "tags">>, <<DumpFlat(request.inst)>>)>>)
        ELSE Raised(ValidationError)

listCall == Sends(<<Get(<<"v1", "datasets", "tags">>)>>)

updateCall(tag_id, name) ==
    LET request == UpdateKnowledgeTagRequest(name, tag_id)
    IN  IF request.ok
        THEN Sends(<<Patch(<<"v1", "datasets", "tags">>, <<DumpFlat(request.inst)>>)>>)
        ELSE Raised(ValidationError)

deleteCall(tag_id) ==
    LET request == DeleteKnowledgeTagRequest(tag_id)
    IN  IF request.ok
        THEN Sends(<<Delete(<<"v1", "datasets", "tags">>, <<DumpFlat(request.inst)>>)>>)
        ELSE Raised(ValidationError)

bind_to_datasetCall(dataset_id, tag_ids) ==
    LET request == BindDatasetToTagRequest(tag_ids, dataset_id)
    IN  IF request.ok
        THEN Sends(<<Post(<<"v1", "datasets", "tags", "binding">>, <<DumpFlat(request.inst)>>)>>)
        ELSE Raised(ValidationError)

\* Faulty variant: the two ids handed to the request model in each other's place.
unbind_from_datasetSwapped(dataset_id, tag_id) ==
    LET request == UnbindDatasetFromTagRequest(dataset_id, tag_id)
    IN  IF request.ok
        THEN Sends(<<Post(<<"v1", "datasets", "tags", "unbinding">>, <<DumpFlat(request.inst)>>)>>)
        ELSE Raised(ValidationError)
unbind_from_datasetCall(dataset_id, tag_id) ==
    LET request == UnbindDatasetFromTagRequest(tag_id, dataset_id)
    IN  IF request.ok
        THEN Sends(<<Post(<<"v1", "datasets", "tags", "unbinding">>, <<DumpFlat(request.inst)>>)>>)
        ELSE Raised(ValidationError)

get_dataset_tagsCall(dataset_id) == Sends(<<Get(<<"v1", "datasets", dataset_id, "tags">>)>>)

create_metadataCall(dataset_id, field_type, name) ==
    LET request == CreateMetadataRequest(field_type, name)
    IN  IF request.ok
        THEN Sends(<<Post(<<"v1", "datasets", dataset_id, "metadata">>, <<DumpFlat(request.inst)>>)>>)
        ELSE Raised(ValidationError)

update_metadataCall(dataset_id, metadata_id, name) ==
    LET request == UpdateMetadataRequest(name)
    IN  IF request.ok
        THEN Sends(<<Patch(<<"v1", "datasets", dataset_id, "metadata", metadata_id>>,
                           <<DumpFlat(request.inst)>>)>>)
        ELSE Raised(ValidationError)

delete_metadataCall(dataset_id, metadata_id) ==
    Sends(<<Delete(<<"v1", "datasets", dataset_id, "metadata", metadata_id>>, NoJson)>>)

\* Literal["disable", "enable"] is an annotation only: the action goes into the
\* path as given.
toggle_built_in_metadataCall(dataset_id, action) ==
    Sends(<<Post(<<"v1", "datasets", dataset_id, "metadata", "built-in", action>>, NoJson)>>)

\* Faulty variant of the loop below: each item put in front of the list.
RECURSIVE converted_dataPrepended(_)
converted_dataPrepended(operation_data) ==
    IF operation_data = <<>> THEN [ok |-> TRUE, insts |-> <<>>]
    ELSE LET item == Head(operation_data)
             head == IF item.isdict THEN DocumentMetadata(item.d)
                     ELSE [ok |-> TRUE, inst |-> item.inst]
             rest == converted_dataPrepended(Tail(operation_data))
         IN  IF ~head.ok THEN [ok |-> FALSE, insts |-> <<>>]
             ELSE IF ~rest.ok THEN [ok |-> FALSE, insts |-> <<>>]
             ELSE [ok |-> TRUE, insts |-> rest.insts \o <<head.inst>>]
\* The loop over operation_data: a dict is built into a DocumentMetadata (which
\* may raise), anything else is appended as it is.  An item is
\* [isdict |-> TRUE, d |-> mapping] or [isdict |-> FALSE, inst |-> instance].
RECURSIVE converted_data(_)
converted_data(operation_data) ==
    IF operation_data = <<>> THEN [ok |-> TRUE, insts |-> <<>>]
    ELSE LET item == Head(operation_data)
             head == IF item.isdict THEN DocumentMetadata(item.d)
                     ELSE [ok |-> TRUE, inst |-> item.inst]
             rest == converted_data(Tail(operation_data))
         IN  IF ~head.ok THEN [ok |-> FALSE, insts |-> <<>>]
             ELSE IF ~rest.ok THEN [ok |-> FALSE, insts |-> <<>>]
             ELSE [ok |-> TRUE, insts |-> <<head.inst>> \o rest.insts]

\* Faulty variant: one POST per item instead of one for the whole list.
update_document_metadataPerItem(dataset_id, operation_data) ==
    LET converted == converted_data(operation_data)
    IN  IF converted.ok
        THEN Sends([i \in 1..Len(converted.insts) |->
                      Post(<<"v1", "datasets", dataset_id, "documents", "metadata">>,
                           <<DumpUpdateDocumentMetadataRequest(
                               UpdateDocumentMetadataRequest(<<converted.insts[i]>>).inst)>>)])
        ELSE Raised(ValidationError)
update_document_metadataCall(dataset_id, operation_data) ==
    LET converted == converted_data(operation_data)
    IN  IF converted.ok
        THEN LET request == UpdateDocumentMetadataRequest(converted.insts)
             IN  Sends(<<Post(<<"v1", "datasets", dataset_id, "documents", "metadata">>,
                              <<DumpUpdateDocumentMetadataRequest(request.inst)>>)>>)
        ELSE Raised(ValidationError)

list_metadataCall(dataset_id) == Sends(<<Get(<<"v1", "datasets", dataset_id, "metadata">>)>>)

\* -------------------------------- client.py: what each method makes of the answer
\* [KnowledgeTag(**tag) for tag in tags]: in order, the first bad record raises.
RECURSIVE KnowledgeTags(_)
KnowledgeTags(tags) ==
    IF tags = <<>> THEN [ok |-> TRUE, insts |-> <<>>]
    ELSE LET head == KnowledgeTag(Head(tags))
             rest == KnowledgeTags(Tail(tags))
         IN  IF head.ok /\ rest.ok
             THEN [ok |-> TRUE, insts |-> <<head.inst>> \o rest.insts]
             ELSE [ok |-> FALSE, insts |-> <<>>]

TagListResult(tags) ==
    LET built == KnowledgeTags(tags)
    IN  IF built.ok THEN Returns(built.insts) ELSE RaisesAt(ValidationError, "response")

\* response.get("data", [])
GetData(obj) == IF Has(obj, "data") THEN obj.data ELSE <<>>

\* Faulty variant: the wrapped records looked up under "items".
listResultItemsKey(response) ==
    IF response.type = "list"
    THEN TagListResult(response.items)
    ELSE TagListResult(IF Has(response.obj, "items") THEN response.obj.items ELSE <<>>)
listResult(response) ==
    IF response.type = "list"
    THEN TagListResult(response.items)
    ELSE TagListResult(GetData(response.obj))

get_dataset_tagsResult(response) ==
    IF response.type = "list"
    THEN TagListResult(response.items)
    ELSE TagListResult(GetData(response.obj))

\* return KnowledgeTag(**response)
KnowledgeTagResult(response) ==
    LET tag == KnowledgeTag(response.obj)
    IN  IF tag.ok THEN Returns(tag.inst) ELSE RaisesAt(ValidationError, "response")

\* return Metadata(**response)
MetadataResult(response) ==
    LET m == Metadata(response.obj)
    IN  IF m.ok THEN Returns(m.inst) ELSE RaisesAt(ValidationError, "response")

\* return MetadataListResponse(**response)
list_metadataResult(response) ==
    LET m == MetadataListResponse(response.obj)
    IN  IF m.ok THEN Returns(m.inst) ELSE RaisesAt(ValidationError, "response")

\* return self._client....(...): the answer is handed on as it is.
PassThrough(response) == Returns(response)

Result(op, response) ==
    CASE op \in {"create", "update"} -> KnowledgeTagResult(response)
      [] op = "list" -> listResult(response)
      [] op = "get_dataset_tags" -> get_dataset_tagsResult(response)
      [] op \in {"create_metadata", "update_metadata"} -> MetadataResult(response)
      [] op = "list_metadata" -> list_metadataResult(response)
      [] OTHER -> PassThrough(response)

\* Faulty variant: a not-found answered with an empty list, a validation
\* error re-raised as the generic one.
OnTransportErrorSwallowed(op, error) ==
    IF op \in {"list", "get_dataset_tags"} /\ error = "DifyNotFoundError"
    THEN Returns(<<>>)
    ELSE RaisesAt(IF error = "DifyValidationError" THEN "DifyAPIError" ELSE error, "transport")
\* No method has a try block: what the transport raises leaves the method.
OnTransportError(op, error) == RaisesAt(error, "transport")

\* ------------------------------------------------------------------- state
VARIABLES
    self,       \* the TagsClient's instance attributes
    pc,         \* per thread: "idle", "waiting" (inside the transport call), "done"
    call,       \* per thread: the method invoked and its arguments
    sent,       \* per thread: the transport calls issued by the invocation
    response,   \* per thread: what the transport answered
    outcome     \* per thread: what the invocation returned or raised

vars == <<self, pc, call, sent, response, outcome>>

BaseClient == "base_client"

NoCall == [op |-> "none"]
NoResponse == [type |-> "none"]
NoOutcome == [kind |-> "none"]

\* __init__: self._client = base_client; no invocation is in progress.
Init ==
    /\ self = [_client |-> BaseClient]
    /\ pc = [t \in Threads |-> "idle"]
    /\ call = [t \in Threads |-> NoCall]
    /\ sent = [t \in Threads |-> <<>>]
    /\ response = [t \in Threads |-> NoResponse]
    /\ outcome = [t \in Threads |-> NoOutcome]

\* A method from its invocation to its transport call: the request model is
\* built, and either the constructor raises or the transport call is made.
Invoke(t, op, args, step) ==
    /\ call' = [call EXCEPT ![t] = [op |-> op, args |-> args]]
    /\ IF step.raised
       THEN /\ pc' = [pc EXCEPT ![t] = "done"]
            /\ outcome' = [outcome EXCEPT ![t] = RaisesAt(step.error, "request")]
            /\ UNCHANGED sent
       ELSE /\ pc' = [pc EXCEPT ![t] = "waiting"]
            /\ sent' = [sent EXCEPT ![t] = step.reqs]
            /\ UNCHANGED outcome
    /\ UNCHANGED <<self, response>>

create(t, name) ==
    /\ pc[t] = "idle"
    /\ Invoke(t, "create", [name |-> name], createCall(name))

list(t) ==
    /\ pc[t] = "idle"
    /\ Invoke(t, "list", <<>>, listCall)

update(t, tag_id, name) ==
    /\ pc[t] = "idle"
    /\ Invoke(t, "update", [tag_id |-> tag_id, name |-> name], updateCall(tag_id, name))

delete(t, tag_id) ==
    /\ pc[t] = "idle"
    /\ Invoke(t, "delete", [tag_id |-> tag_id], deleteCall(tag_id))

bind_to_dataset(t, dataset_id, tag_ids) ==
    /\ pc[t] = "idle"
    /\ Invoke(t, "bind_to_dataset", [dataset_id |-> dataset_id, tag_ids |-> tag_ids],
              bind_to_datasetCall(dataset_id, tag_ids))

unbind_from_dataset(t, dataset_id, tag_id) ==
    /\ pc[t] = "idle"
    /\ Invoke(t, "unbind_from_dataset", [dataset_id |-> dataset_id, tag_id |-> tag_id],
              unbind_from_datasetCall(dataset_id, tag_id))

get_dataset_tags(t, dataset_id) ==
    /\ pc[t] = "idle"
    /\ Invoke(t, "get_dataset_tags", [dataset_id |-> dataset_id], get_dataset_tagsCall(dataset_id))

create_metadata(t, dataset_id, field_type, name) ==
    /\ pc[t] = "idle"
    /\ Invoke(t, "create_metadata",
              [dataset_id |-> dataset_id, field_type |-> field_type, name |-> name],
              create_metadataCall(dataset_id, field_type, name))

update_metadata(t, dataset_id, metadata_id, name) ==
    /\ pc[t] = "idle"
    /\ Invoke(t, "update_metadata",
              [dataset_id |-> dataset_id, metadata_id |-> metadata_id, name |-> name],
              update_metadataCall(dataset_id, metadata_id, name))

delete_metadata(t, dataset_id, metadata_id) ==
    /\ pc[t] = "idle"
    /\ Invoke(t, "delete_metadata", [dataset_id |-> dataset_id, metadata_id |-> metadata_id],
              delete_metadataCall(dataset_id, metadata_id))

toggle_built_in_metadata(t, dataset_id, action) ==
    /\ pc[t] = "idle"
    /\ Invoke(t, "toggle_built_in_metadata", [dataset_id |-> dataset_id, action |-> action],
              toggle_built_in_metadataCall(dataset_id, action))

\* Faulty variant: converted_data kept on the instance instead of in a
\* local: every invocation appends to the list the earlier ones left.
update_document_metadataShared(t, dataset_id, operation_data) ==
    LET kept == IF Has(self, "converted_data") THEN self.converted_data ELSE <<>>
        all == kept \o operation_data
        step == update_document_metadataCall(dataset_id, all)
    IN  /\ pc[t] = "idle"
        /\ call' = [call EXCEPT ![t] = [op |-> "update_document_metadata",
                                         args |-> [dataset_id |-> dataset_id,
                                                   operation_data |-> operation_data]]]
        /\ self' = [_client |-> self._client, converted_data |-> all]
        /\ IF step.raised
           THEN /\ pc' = [pc EXCEPT ![t] = "done"]
                /\ outcome' = [outcome EXCEPT ![t] = RaisesAt(step.error, "request")]
                /\ UNCHANGED sent
           ELSE /\ pc' = [pc EXCEPT ![t] = "waiting"]
                /\ sent' = [sent EXCEPT ![t] = step.reqs]
                /\ UNCHANGED outcome
        /\ UNCHANGED response
update_document_metadata(t, dataset_id, operation_data) ==
    /\ pc[t] = "idle"
    /\ Invoke(t, "update_document_metadata",
              [dataset_id |-> dataset_id, operation_data |-> operation_data],
              update_document_metadataCall(dataset_id, operation_data))

list_metadata(t, dataset_id) ==
    /\ pc[t] = "idle"
    /\ Invoke(t, "list_metadata", [dataset_id |-> dataset_id], list_metadataCall(dataset_id))

\* The transport call returns parsed JSON and the method finishes with it.
TransportReturns(t, r) ==
    /\ pc[t] = "waiting"
    /\ response' = [response EXCEPT ![t] = r]
    /\ outcome' = [outcome EXCEPT ![t] = Result(call[t].op, r)]
    /\ pc' = [pc EXCEPT ![t] = "done"]
    /\ UNCHANGED <<self, call, sent>>

\* The transport call raises one of its typed errors.
TransportRaises(t, error) ==
    /\ pc[t] = "waiting"
    /\ response' = [response EXCEPT ![t] = [type |-> "raise", error |-> error]]
    /\ outcome' = [outcome EXCEPT ![t] = OnTransportError(call[t].op, error)]
    /\ pc' = [pc EXCEPT ![t] = "done"]
    /\ UNCHANGED <<self, call, sent>>

\* The caller has its result or its exception; the invocation's locals
\* (request, response, converted_data, result) are gone.
Finish(t) ==
    /\ pc[t] = "done"
    /\ pc' = [pc EXCEPT ![t] = "idle"]
    /\ call' = [call EXCEPT ![t] = NoCall]
    /\ sent' = [sent EXCEPT ![t] = <<>>]
    /\ response' = [response EXCEPT ![t] = NoResponse]
    /\ outcome' = [outcome EXCEPT ![t] = NoOutcome]
    /\ UNCHANGED self

\* ------------------------------------------------------------------ inputs
Names == {<<>>, <<"R">>, Str(MaxNameLen, "a"), Str(MaxNameLen + 1, "a"),
          Str(MaxNameLen + 2, "a")}
FieldNames == {<<"f">>}
TagIds == {"t1", "t2"}
DatasetIds == {"ds1", "ds2"}
MetadataIds == {"m1", "m2"}
FieldTypes == {"string", "number"}
ActionArgs == {"enable", "disable", "toggle"}
TagIdLists == SeqsUpTo(TagIds, MaxTags)

\* Raw metadata values: complete, complete with a key the model does not
\* know, and without the required value.
mv1 == [id |-> "m1", value |-> "v1", name |-> <<"f", "1">>]
mv2x == [id |-> "m2", value |-> "v2", name |-> <<"f", "2">>, unit |-> "x"]
mvBad == [id |-> "m1", name |-> <<"f", "1">>]

RawMetadataLists == {<<>>, <<mv1>>, <<mv1, mv2x>>, <<mv2x, mv1>>, <<mvBad>>}
RawDocuments ==
    {[document_id |-> "d1", metadata_list |-> l] : l \in RawMetadataLists}
    \cup {[document_id |-> "d2", metadata_list |-> <<mv1>>, note |-> "n"],
          [document_id |-> "d1"]}
\* Instances the caller built beforehand.
mvi1 == [cls |-> "MetadataValue",
         fields |-> [id |-> "m1", value |-> "v1", name |-> <<"f", "1">>]]
mvi2 == [cls |-> "MetadataValue",
         fields |-> [id |-> "m2", value |-> "v2", name |-> <<"f", "2">>]]
BuiltDocuments ==
    {[cls |-> "DocumentMetadata", fields |-> [document_id |-> "d3", metadata_list |-> l]] :
        l \in {<<>>, <<mvi1>>, <<mvi2, mvi1>>}}
Items == {[isdict |-> TRUE, d |-> d] : d \in RawDocuments}
         \cup {[isdict |-> FALSE, inst |-> i] : i \in BuiltDocuments}
OperationDatas == SeqsUpTo(Items, MaxItems)

\* Tag records of an answer: complete, with optional and unknown keys, and
\* without the required id.
tag1 == [id |-> "t1", name |-> <<"R">>]
tag2x == [id |-> "t2", name |-> <<"S">>, color |-> "red", binding_count |-> 2, type |-> "k"]
tagBad == [name |-> <<"R">>]
TagRecords == {tag1, tag2x, tagBad}
TagRecordLists == SeqsUpTo(TagRecords, MaxTags)

md1 == [id |-> "m1", type |-> "string", name |-> <<"f">>]
md2x == [id |-> "m2", type |-> "number", name |-> <<"g">>, use_count |-> 3, built_in |-> FALSE]
mdBad == [id |-> "m1", name |-> <<"f">>]

Success == JsonDict([result |-> "success"])

\* What the transport may answer to each method's call.
Responses(op) ==
    CASE op \in {"create", "update"} -> {JsonDict(d) : d \in TagRecords}
      [] op \in {"list", "get_dataset_tags"} ->
            {JsonList(l) : l \in TagRecordLists}
            \cup {JsonDict([data |-> l]) : l \in TagRecordLists}
            \cup {JsonDict([data |-> <<tag1>>, total |-> 1]), JsonDict([total |-> 0])}
      [] op \in {"create_metadata", "update_metadata"} -> {JsonDict(d) : d \in {md1, md2x, mdBad}}
      [] op = "list_metadata" ->
            {JsonDict([doc_metadata |-> l, built_in_field_enabled |-> b]) :
                l \in {<<>>, <<md1>>, <<md1, md2x>>, <<mdBad>>}, b \in BOOLEAN}
            \cup {JsonDict([doc_metadata |-> <<md1>>])}
      [] OTHER -> {Success}

\* ----------------------------------------------------------- specifications
\* One caller, the full input sets.
Next ==
    \/ \E name \in Names : create(MainThread, name)
    \/ list(MainThread)
    \/ \E tag_id \in TagIds, name \in Names : update(MainThread, tag_id, name)
    \/ \E tag_id \in TagIds : delete(MainThread, tag_id)
    \/ \E dataset_id \in DatasetIds, tag_ids \in TagIdLists :
          bind_to_dataset(MainThread, dataset_id, tag_ids)
    \/ \E dataset_id \in DatasetIds, tag_id \in TagIds :
          unbind_from_dataset(MainThread, dataset_id, tag_id)
    \/ \E dataset_id \in DatasetIds : get_dataset_tags(MainThread, dataset_id)
    \/ \E dataset_id \in DatasetIds, field_type \in FieldTypes, name \in FieldNames :
          create_metadata(MainThread, dataset_id, field_type, name)
    \/ \E dataset_id \in DatasetIds, metadata_id \in MetadataIds, name \in FieldNames :
          update_metadata(MainThread, dataset_id, metadata_id, name)
    \/ \E dataset_id \in DatasetIds, metadata_id \in MetadataIds :
          delete_metadata(MainThread, dataset_id, metadata_id)
    \/ \E dataset_id \in DatasetIds, action \in ActionArgs :
          toggle_built_in_metadata(MainThread, dataset_id, action)
    \/ \E dataset_id \in DatasetIds, operation_data \in OperationDatas :
          update_document_metadata(MainThread, dataset_id, operation_data)
    \/ \E dataset_id \in DatasetIds : list_metadata(MainThread, dataset_id)
    \/ \E r \in Responses(call[MainThread].op) : TransportReturns(MainThread, r)
    \/ \E error \in TransportErrors : TransportRaises(MainThread, error)
    \/ Finish(MainThread)

Spec == Init /\ [][Next]_vars

\* Several callers on the one client, each invocation free to overlap the
\* others; small input sets.
ConcNames == {<<"R">>, Str(MaxNameLen + 1, "a")}
ConcOperationDatas ==
    {<<[isdict |-> TRUE, d |-> [document_id |-> "d1", metadata_list |-> <<mv1>>]]>>,
     <<[isdict |-> FALSE,
        inst |-> [cls |-> "DocumentMetadata",
                  fields |-> [document_id |-> "d3", metadata_list |-> <<mvi2, mvi1>>]]],
       [isdict |-> TRUE, d |-> [document_id |-> "d1", metadata_list |-> <<>>]]>>}
ConcResponses(op) ==
    CASE op \in {"create", "update"} -> {JsonDict(tag1)}
      [] op = "list" -> {JsonList(<<tag1, tag2x>>), JsonDict([data |-> <<tag1, tag2x>>])}
      [] op = "get_dataset_tags" -> {JsonDict([data |-> <<tag2x>>])}
      [] op \in {"create_metadata", "update_metadata"} -> {JsonDict(md1)}
      [] op = "list_metadata" ->
            {JsonDict([doc_metadata |-> <<md1>>, built_in_field_enabled |-> TRUE])}
      [] OTHER -> {Success}

NextConc ==
    \E t \in Threads :
        \/ \E name \in ConcNames : create(t, name)
        \/ list(t)
        \/ \E name \in ConcNames : update(t, "t1", name)
        \/ delete(t, "t1")
        \/ \E tag_ids \in {<<>>, <<"t2", "t1">>} : bind_to_dataset(t, "ds1", tag_ids)
        \/ unbind_from_dataset(t, "ds1", "t1")
        \/ \E dataset_id \in DatasetIds : get_dataset_tags(t, dataset_id)
        \/ create_metadata(t, "ds1", "string", <<"f">>)
        \/ update_metadata(t, "ds1", "m1", <<"f">>)
        \/ delete_metadata(t, "ds1", "m1")
        \/ \E action \in {"enable", "toggle"} : toggle_built_in_metadata(t, "ds1", action)
        \/ \E operation_data \in ConcOperationDatas :
              update_document_metadata(t, "ds1", operation_data)
        \/ list_metadata(t, "ds1")
        \/ \E r \in ConcResponses(call[t].op) : TransportReturns(t, r)
        \/ TransportRaises(t, "DifyNotFoundError")
        \/ Finish(t)

SpecConc == Init /\ [][NextConc]_vars

\* ------------------------------------------------------------------ claims
Active(t) == pc[t] # "idle"
RaisedAtRequest(t) == outcome[t].kind = "raise" /\ outcome[t].at = "request"
RejectedLocally(t) ==
    /\ pc[t] = "done"
    /\ sent[t] = <<>>
    /\ outcome[t] = RaisesAt(ValidationError, "request")
Answered(t) == pc[t] = "done" /\ response[t].type \in {"list", "dict"}

\* The typed sequence a list of tag records stands for: the i-th element is
\* the KnowledgeTag of the i-th record; one bad record fails the whole answer.
ExpectedTags(records) ==
    IF \A i \in DOMAIN records : KnowledgeTag(records[i]).ok
    THEN Returns([i \in 1..Len(records) |-> KnowledgeTag(records[i]).inst])
    ELSE RaisesAt(ValidationError, "response")

\* C1: list() and get_dataset_tags() end the same way, with the same typed
\* sequence in the same order, whether the transport answers the tag records
\* as a bare list or wrapped in an object under the key "data".
C1_SameForBothEnvelopes ==
    \A t \in Threads :
        (Answered(t) /\ call[t].op \in {"list", "get_dataset_tags"}) =>
            /\ response[t].type = "list" =>
                  outcome[t] = ExpectedTags(response[t].items)
            /\ (response[t].type = "dict" /\ Has(response[t].obj, "data")) =>
                  outcome[t] = ExpectedTags(response[t].obj.data)

C1_Witness ==
    \E t \in Threads :
        /\ Answered(t) /\ call[t].op = "list"
        /\ response[t] = JsonDict([data |-> <<tag2x, tag1>>])
        /\ outcome[t].kind = "return"
        /\ Len(outcome[t].value) = 2
        /\ outcome[t].value[1].fields.id = "t2"
        /\ outcome[t].value[2].fields.id = "t1"

\* C2: toggle_built_in_metadata with an action that is neither "enable" nor
\* "disable" fails with a validation error and issues no transport call.
C2_InvalidActionRejected ==
    \A t \in Threads :
        (Active(t) /\ call[t].op = "toggle_built_in_metadata"
            /\ call[t].args.action \notin {"enable", "disable"}) =>
            (sent[t] = <<>> /\ RaisedAtRequest(t))

\* C3: create and update issue their transport call exactly when the name has
\* at most 50 characters; a longer name raises a validation error with no
\* transport call issued.
C3_NameLengthDecides ==
    \A t \in Threads :
        (Active(t) /\ call[t].op \in {"create", "update"}) =>
            IF Len(call[t].args.name) <= 50
            THEN Len(sent[t]) = 1 /\ ~RaisedAtRequest(t)
            ELSE RejectedLocally(t)

C3_Witness ==
    \E t \in Threads :
        /\ call[t].op = "create"
        /\ Len(call[t].args.name) = 51
        /\ RejectedLocally(t)

\* C4 as stated: bind_to_dataset with the empty tag_ids fails with a
\* validation error and no POST to /v1/datasets/tags/binding is issued.
C4_EmptyTagIdsRejected ==
    \A t \in Threads :
        (Active(t) /\ call[t].op = "bind_to_dataset" /\ call[t].args.tag_ids = <<>>) =>
            RejectedLocally(t)

\* C4 amended: bind_to_dataset puts no length requirement on tag_ids; with
\* the empty list the request passes validation and exactly one POST to
\* /v1/datasets/tags/binding is issued, with body {tag_ids: [], target_id:
\* dataset_id}.
C4_EmptyTagIdsSent ==
    \A t \in Threads :
        (Active(t) /\ call[t].op = "bind_to_dataset" /\ call[t].args.tag_ids = <<>>) =>
            /\ ~RaisedAtRequest(t)
            /\ sent[t] = <<[verb |-> "POST",
                            path |-> <<"v1", "datasets", "tags", "binding">>,
                            json |-> <<[tag_ids |-> <<>>,
                                        target_id |-> call[t].args.dataset_id]>>]>>

C4_Witness ==
    \E t \in Threads :
        /\ pc[t] = "done" /\ call[t].op = "bind_to_dataset"
        /\ call[t].args.tag_ids = <<>>
        /\ Len(sent[t]) = 1
        /\ outcome[t] = Returns(Success)

\* An item's metadata_list, or the empty tuple when a raw mapping has none.
MetadataListOf(item) ==
    IF item.isdict
    THEN IF Has(item.d, "metadata_list") THEN item.d.metadata_list ELSE <<>>
    ELSE item.inst.fields.metadata_list
HasEmptyMetadataList(item) ==
    (item.isdict => Has(item.d, "metadata_list")) /\ MetadataListOf(item) = <<>>
\* A raw mapping carries document_id and a metadata_list whose entries each
\* carry id, value and name; a pre-built instance is well formed as it is.
WellFormed(item) ==
    item.isdict =>
        /\ Has(item.d, "document_id")
        /\ Has(item.d, "metadata_list")
        /\ \A j \in DOMAIN item.d.metadata_list :
              {"id", "value", "name"} \subseteq DOMAIN item.d.metadata_list[j]

\* C5 as stated: when any item of operation_data has an empty metadata_list
\* the call fails with a validation error and no transport call is issued.
C5_EmptyMetadataListRejected ==
    \A t \in Threads :
        (Active(t) /\ call[t].op = "update_document_metadata"
            /\ \E i \in DOMAIN call[t].args.operation_data :
                  HasEmptyMetadataList(call[t].args.operation_data[i])) =>
            RejectedLocally(t)

\* C5 amended: update_document_metadata puts no length requirement on
\* metadata_list.  When every item is a DocumentMetadata or a raw mapping
\* carrying document_id and a metadata_list (empty or not) whose entries each
\* carry id, value and name, the call passes validation and one POST is
\* issued, in which an item whose metadata_list is empty is sent with
\* metadata_list: []; when some raw mapping lacks document_id or
\* metadata_list, or has an entry without id, value or name, the call fails
\* with a validation error and no transport call.
C5_EmptyMetadataListSent ==
    \A t \in Threads :
        (Active(t) /\ call[t].op = "update_document_metadata") =>
            LET items == call[t].args.operation_data
            IN  IF \A i \in DOMAIN items : WellFormed(items[i])
                THEN /\ ~RaisedAtRequest(t)
                     /\ Len(sent[t]) = 1
                     /\ \A i \in DOMAIN items :
                           HasEmptyMetadataList(items[i]) =>
                              sent[t][1].json[1].operation_data[i].metadata_list = <<>>
                ELSE RejectedLocally(t)

C5_Witness ==
    \E t \in Threads :
        /\ pc[t] = "waiting" /\ call[t].op = "update_document_metadata"
        /\ Len(call[t].args.operation_data) = 2
        /\ call[t].args.operation_data[1].isdict
        /\ HasEmptyMetadataList(call[t].args.operation_data[1])
        /\ ~call[t].args.operation_data[2].isdict
        /\ HasEmptyMetadataList(call[t].args.operation_data[2])
        /\ Len(sent[t]) = 1

\* The entry an item is sent as: its document_id and, in order, the id, value
\* and name of each of its metadata values.
EntryOfMapping(d) ==
    [document_id |-> d.document_id,
     metadata_list |-> [j \in 1..Len(d.metadata_list) |->
                           [id |-> d.metadata_list[j].id,
                            value |-> d.metadata_list[j].value,
                            name |-> d.metadata_list[j].name]]]
EntryOfInstance(inst) ==
    [document_id |-> inst.fields.document_id,
     metadata_list |-> [j \in 1..Len(inst.fields.metadata_list) |->
                           [id |-> inst.fields.metadata_list[j].fields.id,
                            value |-> inst.fields.metadata_list[j].fields.value,
                            name |-> inst.fields.metadata_list[j].fields.name]]]

\* C6: a list mixing raw mappings and DocumentMetadata values is sent as one
\* payload {operation_data: [...]} in a single POST whose i-th entry is the
\* serialization of the caller's i-th item, metadata_list order kept, and a
\* raw mapping gives the same entry as the DocumentMetadata built from it.
C6_OnePayloadInOrder ==
    \A t \in Threads :
        (Active(t) /\ call[t].op = "update_document_metadata" /\ ~RaisedAtRequest(t)) =>
            LET items == call[t].args.operation_data
            IN  /\ Len(sent[t]) = 1
                /\ sent[t][1].verb = "POST"
                /\ Len(sent[t][1].json) = 1
                /\ DOMAIN sent[t][1].json[1] = {"operation_data"}
                /\ Len(sent[t][1].json[1].operation_data) = Len(items)
                /\ \A i \in DOMAIN items :
                      LET entry == sent[t][1].json[1].operation_data[i]
                      IN  IF items[i].isdict
                          THEN /\ entry = EntryOfMapping(items[i].d)
                               /\ entry = EntryOfInstance(DocumentMetadata(items[i].d).inst)
                          ELSE entry = EntryOfInstance(items[i].inst)

C6_Witness ==
    \E t \in Threads :
        /\ pc[t] = "waiting" /\ call[t].op = "update_document_metadata"
        /\ Len(call[t].args.operation_data) = 2
        /\ ~call[t].args.operation_data[1].isdict
        /\ Len(call[t].args.operation_data[1].inst.fields.metadata_list) = 2
        /\ call[t].args.operation_data[2].isdict
        /\ call[t].args.operation_data[2].d.metadata_list = <<mv1, mv2x>>
        /\ Len(sent[t]) = 1
        /\ sent[t][1].json[1].operation_data[1].document_id = "d3"
        /\ sent[t][1].json[1].operation_data[2].metadata_list[2].id = "m2"

\* C7: an invocation whose request passes validation issues exactly one
\* transport call, whether that call is still out, has returned or has raised.
C7_ExactlyOneTransportCall ==
    \A t \in Threads :
        (Active(t) /\ ~RaisedAtRequest(t)) => Len(sent[t]) = 1

C7_Witness ==
    \E t \in Threads :
        /\ pc[t] = "done" /\ call[t].op = "update_document_metadata"
        /\ Len(call[t].args.operation_data) = 2
        /\ response[t] = [type |-> "raise", error |-> "DifyAPIError"]
        /\ Len(sent[t]) = 1

\* The interface table: verb, path and body of each operation's call.
TableRequest(c) ==
    LET a == c.args
        tags == <<"v1", "datasets", "tags">>
        ds == <<"v1", "datasets", a.dataset_id>>
    IN  CASE c.op = "create" ->
               [verb |-> "POST", path |-> tags, json |-> <<[name |-> a.name]>>]
          [] c.op = "list" ->
               [verb |-> "GET", path |-> tags, json |-> <<>>]
          [] c.op = "update" ->
               [verb |-> "PATCH", path |-> tags,
                json |-> <<[name |-> a.name, tag_id |-> a.tag_id]>>]
          [] c.op = "delete" ->
               [verb |-> "DELETE", path |-> tags, json |-> <<[tag_id |-> a.tag_id]>>]
          [] c.op = "bind_to_dataset" ->
               [verb |-> "POST", path |-> tags \o <<"binding">>,
                json |-> <<[tag_ids |-> a.tag_ids, target_id |-> a.dataset_id]>>]
          [] c.op = "unbind_from_dataset" ->
               [verb |-> "POST", path |-> tags \o <<"unbinding">>,
                json |-> <<[tag_id |-> a.tag_id, target_id |-> a.dataset_id]>>]
          [] c.op = "get_dataset_tags" ->
               [verb |-> "GET", path |-> ds \o <<"tags">>, json |-> <<>>]
          [] c.op = "create_metadata" ->
               [verb |-> "POST", path |-> ds \o <<"metadata">>,
                json |-> <<[type |-> a.field_type, name |-> a.name]>>]
          [] c.op = "update_metadata" ->
               [verb |-> "PATCH", path |-> ds \o <<"metadata", a.metadata_id>>,
                json |-> <<[name |-> a.name]>>]
          [] c.op = "delete_metadata" ->
               [verb |-> "DELETE", path |-> ds \o <<"metadata", a.metadata_id>>,
                json |-> <<>>]
          [] c.op = "toggle_built_in_metadata" ->
               [verb |-> "POST", path |-> ds \o <<"metadata", "built-in", a.action>>,
                json |-> <<>>]
          [] c.op = "update_document_metadata" ->
               [verb |-> "POST", path |-> ds \o <<"documents", "metadata">>,
                json |-> <<[operation_data |->
                              [i \in 1..Len(a.operation_data) |->
                                  IF a.operation_data[i].isdict
                                  THEN EntryOfMapping(a.operation_data[i].d)
                                  ELSE EntryOfInstance(a.operation_data[i].inst)]]>>]
          [] c.op = "list_metadata" ->
               [verb |-> "GET", path |-> ds \o <<"metadata">>, json |-> <<>>]

\* C8: the transport call of each of the 13 operations has the verb, the path
\* and the body of the interface table, with the caller's dataset_id,
\* metadata_id and tag ids in their places.
C8_RequestsFollowTable ==
    \A t \in Threads :
        (Active(t) /\ sent[t] # <<>>) => sent[t] = <<TableRequest(call[t])>>

C8_Witness ==
    \E t \in Threads :
        /\ pc[t] = "waiting" /\ call[t].op = "unbind_from_dataset"
        /\ call[t].args = [dataset_id |-> "ds2", tag_id |-> "t1"]
        /\ sent[t] = <<[verb |-> "POST",
                        path |-> <<"v1", "datasets", "tags", "unbinding">>,
                        json |-> <<[tag_id |-> "t1", target_id |-> "ds2"]>>]>>

\* C9: when the transport call raises, the method ends by raising that same
\* error, and returns no value.
C9_TransportErrorPropagates ==
    \A t \in Threads :
        (pc[t] = "done" /\ response[t].type = "raise") =>
            /\ outcome[t].kind = "raise"
            /\ outcome[t].error = response[t].error
            /\ outcome[t].at = "transport"

C9_Witness ==
    \E t \in Threads :
        /\ pc[t] = "done" /\ call[t].op = "list"
        /\ response[t] = [type |-> "raise", error |-> "DifyNotFoundError"]
        /\ outcome[t] = [kind |-> "raise", error |-> "DifyNotFoundError", at |-> "transport"]

SameCall(t, u) == call[t].op = call[u].op /\ call[t].args = call[u].args

\* C10: the instance holds the transport reference given at construction and
\* nothing else, whatever calls have been made; and with several threads
\* calling at once, two invocations with the same arguments issue the same
\* transport call and, given the same answer, end the same way.
C10_NoSharedState ==
    /\ self = [_client |-> BaseClient]
    /\ \A t, u \in Threads :
          (Active(t) /\ Active(u) /\ SameCall(t, u)) =>
              /\ sent[t] = sent[u]
              /\ (pc[t] = "done" /\ pc[u] = "done" /\ response[t] = response[u]) =>
                    outcome[t] = outcome[u]

C10_Witness ==
    \E t, u \in Threads :
        /\ t # u
        /\ pc[t] = "done" /\ pc[u] = "waiting"
        /\ call[t].op = "update_document_metadata" /\ SameCall(t, u)
        /\ Len(call[t].args.operation_data) = 2
        /\ outcome[t] = Returns(Success)
        /\ sent[u] = sent[t]

====
